---- MODULE Spec2Model ----
(***************************************************************************)
(* The daikinone integration: the climate entity adapter (climate.py) and  *)
(* the configuration-entry lifecycle (__init__.py).                        *)
(*                                                                         *)
(* Python values are written as follows: True / False / None are the       *)
(* strings "True" / "False" / "None"; HVACMode and FAN_* members are their *)
(* string values; a raised exception is the name of its class.  A dict     *)
(* literal is the sequence of its items in insertion order, which is what  *)
(* list(d.keys()) and list(d.values()) enumerate.                          *)
(***************************************************************************)
EXTENDS Integers, Sequences, FiniteSets, Bags, TLC

VARIABLES
    device_data,   \* self._device.device_data: the vendor's cached fields
    trace,         \* every self._device.set_device_value(key, value) call made so far
    applied,       \* how many commands of trace the vendor has settled
    calls,         \* the setter calls begun so far: arguments, state read, outcome
    hass_data,     \* hass.data: whether DOMAIN is a key, and hass.data[DOMAIN]
    suspended,     \* the setup / unload calls waiting in an await, as a bag
    history,       \* per entry: what the last setup did, and unloads since
    last_entry     \* the lifecycle call that ended most recently and its outcome

climate_vars == <<device_data, trace, applied, calls>>
entry_vars == <<hass_data, suspended, history, last_entry>>
vars == <<device_data, trace, applied, calls, hass_data, suspended, history, last_entry>>

(***************************************************************************)
(* Bounds of the model.                                                    *)
(***************************************************************************)
MaxCalls == 2        \* async_set_hvac_mode / async_set_fan_mode calls in one behaviour
MaxTempCalls == 1    \* async_set_temperature calls in one behaviour
MaxInFlight == 2     \* setup / unload calls waiting in an await at one time
MaxCode == 6         \* vendor codes range over 0..MaxCode
MaxTemp == 2         \* temperatures range over 1..MaxTemp
MaxEntries == 2      \* configuration entries

VendorCodes == 0..MaxCode
Temps == 1..MaxTemp
EntryIds == 1..MaxEntries

PyTrue == "True"
PyFalse == "False"
PyNone == "None"
PyBool(b) == IF b THEN PyTrue ELSE PyFalse

(***************************************************************************)
(* climate.py: the translation tables.                                     *)
(***************************************************************************)
HVAC_DRY == "dry"
HVAC_FAN_ONLY == "fan_only"
HVAC_HEAT == "heat"
HVAC_COOL == "cool"
HVAC_HEAT_COOL == "heat_cool"
HVAC_OFF == "off"

FAN_AUTO == "auto"
FAN_LOW == "low"
FAN_MEDIUM == "medium"
FAN_HIGH == "high"

DKN_MODE_TO_HVAC_MODE ==
    << <<5, HVAC_DRY>>, <<4, HVAC_FAN_ONLY>>, <<3, HVAC_HEAT>>,
       <<2, HVAC_COOL>>, <<1, HVAC_HEAT_COOL>> >>

DKN_MODE_TO_FAN_MODE ==
    << <<0, FAN_AUTO>>, <<2, FAN_LOW>>, <<4, FAN_MEDIUM>>, <<6, FAN_HIGH>> >>

\* list(d.keys()), list(d.values()), k in d, d[k]
dict_keys(d) == [i \in 1..Len(d) |-> d[i][1]]
dict_values(d) == [i \in 1..Len(d) |-> d[i][2]]
dict_has(d, k) == \E i \in 1..Len(d) : d[i][1] = k
dict_get(d, k) == d[CHOOSE i \in 1..Len(d) : d[i][1] = k][2]

\* list.index(x): the position of the first occurrence; 0 where Python raises
\* ValueError (no setter below passes a mode that is not in its table)
list_index(list, x) ==
    IF \E i \in 1..Len(list) : list[i] = x
    THEN CHOOSE i \in 1..Len(list) :
            list[i] = x /\ \A j \in 1..(i - 1) : list[j] # x
    ELSE 0

\* Mutant: the position in the value list is returned instead of the key at it.
_hvac_mode_to_dkn_mode_position(hvac_mode) ==
    list_index(dict_values(DKN_MODE_TO_HVAC_MODE), hvac_mode)

_hvac_mode_to_dkn_mode(hvac_mode) ==
    dict_keys(DKN_MODE_TO_HVAC_MODE)[
        list_index(dict_values(DKN_MODE_TO_HVAC_MODE), hvac_mode)]

\* Mutant: the position in the value list is returned instead of the key at it.
_fan_mode_to_dkn_mode_position(fan_mode) ==
    list_index(dict_values(DKN_MODE_TO_FAN_MODE), fan_mode)

_fan_mode_to_dkn_mode(fan_mode) ==
    dict_keys(DKN_MODE_TO_FAN_MODE)[
        list_index(dict_values(DKN_MODE_TO_FAN_MODE), fan_mode)]

\* self._attr_hvac_modes, as __init__ builds it
hvac_modes == Append(dict_values(DKN_MODE_TO_HVAC_MODE), HVAC_OFF)

fan_modes == dict_values(DKN_MODE_TO_FAN_MODE)

Range(s) == {s[i] : i \in 1..Len(s)}

\* float | None: a sequence of at most one value
None == <<>>
Some(v) == <<v>>

KeyError == "KeyError"
UpdateFailed == "UpdateFailed"
VendorError == "VendorError"   \* an Exception subclass raised by set_device_value
CancelledError == "CancelledError"   \* asyncio.CancelledError: a BaseException that
                                     \* is no Exception, raised in a cancelled await
Returned == "returned"
Suspended == "suspended"       \* the call waits in an await

(***************************************************************************)
(* climate.py: the property getters, as functions of the vendor's data d.  *)
(* A getter that raises yields the name of the exception.                  *)
(***************************************************************************)
hvac_mode_of(d) ==
    IF d.power = PyFalse
    THEN HVAC_OFF
    ELSE IF dict_has(DKN_MODE_TO_HVAC_MODE, d.mode)
         THEN dict_get(DKN_MODE_TO_HVAC_MODE, d.mode)
         ELSE KeyError

hvac_mode == hvac_mode_of(device_data)

\* Mutant: the heat and cool setpoints are taken for each other.
target_temperature_of_swapped(d) ==
    IF hvac_mode_of(d) = KeyError THEN Some(KeyError)
    ELSE IF hvac_mode_of(d) = HVAC_COOL THEN Some(d.setpoint_air_heat)
    ELSE IF hvac_mode_of(d) = HVAC_HEAT THEN Some(d.setpoint_air_cool)
    ELSE IF hvac_mode_of(d) = HVAC_HEAT_COOL THEN Some(d.setpoint_air_auto)
    ELSE None

target_temperature_of(d) ==
    IF hvac_mode_of(d) = KeyError THEN Some(KeyError)
    ELSE IF hvac_mode_of(d) = HVAC_COOL THEN Some(d.setpoint_air_cool)
    ELSE IF hvac_mode_of(d) = HVAC_HEAT THEN Some(d.setpoint_air_heat)
    ELSE IF hvac_mode_of(d) = HVAC_HEAT_COOL THEN Some(d.setpoint_air_auto)
    ELSE None

target_temperature == target_temperature_of(device_data)

fan_mode_of(d) ==
    IF dict_has(DKN_MODE_TO_FAN_MODE, d.speed_state)
    THEN dict_get(DKN_MODE_TO_FAN_MODE, d.speed_state)
    ELSE KeyError

fan_mode == fan_mode_of(device_data)

(***************************************************************************)
(* The vendor device (charles_dev.daikin_device.DaikinDevice).             *)
(* set_device_value(key, value) is recorded in trace when it is called;    *)
(* the handler then waits in the await until the call returns or raises,   *)
(* and other callbacks run meanwhile.  The vendor settles a command at any *)
(* time after it was sent.  After a change the vendor calls                *)
(* on_data_updated, which asks the host to read the getters again          *)
(* (schedule_update_ha_state, as line 178 does): the getters are functions *)
(* of device_data here, so the entity stores nothing for it.               *)
(***************************************************************************)
Command(key, value) == [key |-> key, value |-> value]

\* how an awaited set_device_value call ends
SetterResults == {Returned, VendorError, CancelledError}

\* the handler begins as the call after the ones begun so far
begin_call(op, arg, read, outcome) ==
    calls' = Append(calls, [op |-> op, arg |-> arg, read |-> read,
                            outcome |-> outcome])

\* call i calls self._device.set_device_value(cmd.key, cmd.value)
set_device_value(i, cmd) ==
    trace' = Append(trace, [call |-> i, key |-> cmd.key, value |-> cmd.value])

\* call i returns or raises
end_call(i, outcome) ==
    calls' = [calls EXCEPT ![i].outcome = outcome]

\* the commands call i has made so far, in the order it made them
issued(i) ==
    LET own == SelectSeq(trace, LAMBDA c : c.call = i)
    IN [k \in 1..Len(own) |-> Command(own[k].key, own[k].value)]

VendorSettle ==
    /\ applied < Len(trace)
    /\ applied' = applied + 1
    /\ \E accepted \in BOOLEAN :
         LET cmd == trace[applied + 1]
         IN device_data' = IF accepted
                           THEN [device_data EXCEPT ![cmd.key] = cmd.value]
                           ELSE device_data
    /\ UNCHANGED <<trace, calls, entry_vars>>

\* the vendor changes a field by itself (the thermostat's own buttons, its
\* schedule, another client) and calls back
VendorPush(field, value) ==
    /\ device_data[field] # value
    /\ device_data' = [device_data EXCEPT ![field] = value]
    /\ UNCHANGED <<trace, applied, calls, entry_vars>>

(***************************************************************************)
(* climate.py: the setters.  A handler runs from its start to its first    *)
(* await in one step, and from one await to the next (or to its end) in    *)
(* one step; between the steps of one call the vendor and other calls act. *)
(* async_set_hvac_mode reads the power field once, before its first await. *)
(***************************************************************************)
\* Mutant: the power command is sent before the mode command.
hvac_mode_commands_power_first(new_hvac_mode, power) ==
    LET current_power_state == (power = PyTrue)
        new_power_state == (new_hvac_mode # HVAC_OFF)
    IN (IF new_power_state # current_power_state
        THEN <<Command("power", PyBool(new_power_state))>>
        ELSE <<>>)
       \o (IF new_power_state
           THEN <<Command("mode", _hvac_mode_to_dkn_mode(new_hvac_mode))>>
           ELSE <<>>)

\* Mutant: a mode command is sent for OFF too, with a code of its own.
hvac_mode_commands_mode_always(new_hvac_mode, power) ==
    LET current_power_state == (power = PyTrue)
        new_power_state == (new_hvac_mode # HVAC_OFF)
    IN <<Command("mode", IF new_power_state
                         THEN _hvac_mode_to_dkn_mode(new_hvac_mode)
                         ELSE 0)>>
       \o (IF new_power_state # current_power_state
           THEN <<Command("power", PyBool(new_power_state))>>
           ELSE <<>>)

\* Mutant: the power command is sent whether or not the power state changes.
hvac_mode_commands_always_power(new_hvac_mode, power) ==
    LET new_power_state == (new_hvac_mode # HVAC_OFF)
    IN (IF new_power_state
        THEN <<Command("mode", _hvac_mode_to_dkn_mode(new_hvac_mode))>>
        ELSE <<>>)
       \o <<Command("power", PyBool(new_power_state))>>

\* the set_device_value calls lines 170-177 make, one after the other, when
\* none raises; power is the power field as line 170 read it
hvac_mode_commands(new_hvac_mode, power) ==
    LET current_power_state == (power = PyTrue)
        new_power_state == (new_hvac_mode # HVAC_OFF)
    IN (IF new_power_state
        THEN <<Command("mode", _hvac_mode_to_dkn_mode(new_hvac_mode))>>
        ELSE <<>>)
       \o (IF new_power_state # current_power_state
           THEN <<Command("power", PyBool(new_power_state))>>
           ELSE <<>>)

\* from the call to the first await (or to the return, when there is none)
async_set_hvac_mode(new_hvac_mode) ==
    /\ Len(calls) < MaxCalls
    /\ LET planned == hvac_mode_commands(new_hvac_mode, device_data.power)
           begin(outcome) == begin_call("async_set_hvac_mode", new_hvac_mode,
                                        device_data.power, outcome)
       IN IF planned = <<>>
          THEN begin(Returned) /\ trace' = trace
          ELSE begin(Suspended) /\ set_device_value(Len(calls) + 1, planned[1])
    /\ UNCHANGED <<device_data, applied, entry_vars>>

\* call i leaves its await: the exception of set_device_value propagates, or
\* the handler goes on to its next set_device_value, or it returns
async_set_hvac_mode_resumed(i, result) ==
    /\ calls[i].op = "async_set_hvac_mode"
    /\ calls[i].outcome = Suspended
    /\ LET planned == hvac_mode_commands(calls[i].arg, calls[i].read)
           sent == Len(issued(i))
       IN IF result # Returned
          THEN end_call(i, result) /\ trace' = trace
          ELSE IF sent < Len(planned)
          THEN set_device_value(i, planned[sent + 1]) /\ calls' = calls
          ELSE end_call(i, Returned) /\ trace' = trace
    /\ UNCHANGED <<device_data, applied, entry_vars>>

async_set_fan_mode(new_fan_mode) ==
    /\ Len(calls) < MaxCalls
    /\ begin_call("async_set_fan_mode", new_fan_mode, "", Suspended)
    /\ set_device_value(Len(calls) + 1,
                        Command("speed_state", _fan_mode_to_dkn_mode(new_fan_mode)))
    /\ UNCHANGED <<device_data, applied, entry_vars>>

async_set_fan_mode_resumed(i, result) ==
    /\ calls[i].op = "async_set_fan_mode"
    /\ calls[i].outcome = Suspended
    /\ end_call(i, result)
    /\ UNCHANGED <<device_data, trace, applied, entry_vars>>

\* kwargs.get(ATTR_TEMPERATURE)
kwargs_get_temperature(kwargs) ==
    IF "temperature" \in DOMAIN kwargs THEN Some(kwargs.temperature) ELSE None

property_to_update(mode) ==
    IF mode = HVAC_COOL THEN "setpoint_air_cool"
    ELSE IF mode = HVAC_HEAT THEN "setpoint_air_heat"
    ELSE IF mode = HVAC_HEAT_COOL THEN "setpoint_air_auto"
    ELSE ""

async_set_temperature(kwargs) ==
    /\ Len(calls) < MaxTempCalls
    /\ LET temperature == kwargs_get_temperature(kwargs)
           begin(outcome) == begin_call("async_set_temperature", kwargs,
                                        hvac_mode, outcome)
       IN IF temperature = None
          THEN begin(UpdateFailed) /\ trace' = trace
          ELSE IF hvac_mode = KeyError
          THEN begin(KeyError) /\ trace' = trace
          ELSE IF property_to_update(hvac_mode) = ""
          THEN begin(UpdateFailed) /\ trace' = trace
          ELSE /\ begin(Suspended)
               /\ set_device_value(Len(calls) + 1,
                                   Command(property_to_update(hvac_mode),
                                           temperature[1]))
    /\ UNCHANGED <<device_data, applied, entry_vars>>

\* try: await set_device_value(...)  except Exception: raise UpdateFailed(...)
except_Exception(result) ==
    IF result = VendorError THEN UpdateFailed ELSE result

async_set_temperature_resumed(i, result) ==
    /\ calls[i].op = "async_set_temperature"
    /\ calls[i].outcome = Suspended
    /\ end_call(i, except_Exception(result))
    /\ UNCHANGED <<device_data, trace, applied, entry_vars>>

Kwargs ==
    {[temperature |-> t] : t \in Temps} \cup {[target_temp_high |-> t] : t \in Temps}

(***************************************************************************)
(* __init__.py: the configuration-entry lifecycle.  hass.data[DOMAIN] is a *)
(* function from the entry ids that are its keys to DaikinData records.    *)
(* A call runs from its start to its first await in one step and from one  *)
(* await to the next in one step; suspended holds the calls that wait, and *)
(* calls of one entry can wait at the same time.                           *)
(* history is not program state: it remembers, per entry, how the login of *)
(* the last setup ended, whether the platforms were unloaded after it, and *)
(* whether a login completed after the last unload.                        *)
(***************************************************************************)
DaikinData(entry_id, client) == [entry_id |-> entry_id, client |-> client]

LoginError == "LoginError"       \* whatever exception client.login raises
ForwardError == "ForwardError"   \* whatever async_forward_entry_setups raises
UnloadError == "UnloadError"     \* whatever async_unload_platforms raises

\* how the awaited async_unload_platforms ends: it returns whether the
\* platforms unloaded, or it raises
UnloadResults == {PyTrue, PyFalse, UnloadError}

dict_pop(d, k) == [x \in (DOMAIN d) \ {k} |-> d[x]]

has_record(e) == hass_data.domain /\ e \in DOMAIN hass_data.records

\* a call of op for entry that waits in the await of `at`
Task(op, entry, at) == [op |-> op, entry |-> entry, at |-> at]
AtLogin(e) == Task("async_setup_entry", e, "login")
AtForward(e) == Task("async_setup_entry", e, "async_forward_entry_setups")
AtUnloadPlatforms(e) == Task("async_unload_entry", e, "async_unload_platforms")

suspend(task) == suspended' = suspended (+) SetToBag({task})
resume(task) == suspended' = suspended (-) SetToBag({task})
move(from, to) == suspended' = (suspended (-) SetToBag({from})) (+) SetToBag({to})

\* Mutant: the record is stored before the login is awaited.
async_setup_entry_stores_first(config_entry) ==
    /\ BagCardinality(suspended) < MaxInFlight
    /\ hass_data' =
          [domain |-> TRUE,
           records |-> (config_entry :> DaikinData(config_entry, "DaikinCloud"))
                       @@ hass_data.records]
    /\ suspend(AtLogin(config_entry))
    /\ UNCHANGED <<history, last_entry, climate_vars>>

\* lines 20-30: hass.data.setdefault(DOMAIN, {}), then the login is awaited
async_setup_entry(config_entry) ==
    /\ BagCardinality(suspended) < MaxInFlight
    /\ hass_data' = [hass_data EXCEPT !.domain = TRUE]
    /\ suspend(AtLogin(config_entry))
    /\ UNCHANGED <<history, last_entry, climate_vars>>

\* lines 30-38: the login raises, or the record is stored and the platform
\* setups are awaited
async_setup_entry_after_login(config_entry, login_raises) ==
    /\ BagIn(AtLogin(config_entry), suspended)
    /\ IF login_raises
       THEN /\ resume(AtLogin(config_entry))
            /\ UNCHANGED hass_data
            /\ history' = [history EXCEPT ![config_entry] =
                             [@ EXCEPT !.last_setup = "login_failed",
                                       !.unloaded_since = FALSE]]
            /\ last_entry' = [op |-> "async_setup_entry", entry |-> config_entry,
                              outcome |-> LoginError]
       ELSE /\ move(AtLogin(config_entry), AtForward(config_entry))
            /\ hass_data' =
                 [domain |-> TRUE,
                  records |-> (config_entry :> DaikinData(config_entry, "DaikinCloud"))
                              @@ hass_data.records]
            /\ history' = [history EXCEPT ![config_entry] =
                             [last_setup |-> "login_completed",
                              unloaded_since |-> FALSE,
                              login_since_unload |-> TRUE]]
            /\ UNCHANGED last_entry
    /\ UNCHANGED climate_vars

\* lines 38-40: async_forward_entry_setups raises, or the setup returns True
async_setup_entry_after_forward(config_entry, forward_raises) ==
    /\ BagIn(AtForward(config_entry), suspended)
    /\ resume(AtForward(config_entry))
    /\ last_entry' = [op |-> "async_setup_entry", entry |-> config_entry,
                      outcome |-> IF forward_raises THEN ForwardError ELSE PyTrue]
    /\ UNCHANGED <<hass_data, history, climate_vars>>

\* line 45: async_unload_platforms is awaited
async_unload_entry(entry) ==
    /\ BagCardinality(suspended) < MaxInFlight
    /\ suspend(AtUnloadPlatforms(entry))
    /\ UNCHANGED <<hass_data, history, last_entry, climate_vars>>

\* lines 45-48: the exception of async_unload_platforms propagates, or the
\* record is popped when the platforms unloaded
async_unload_entry_after_unload_platforms(entry, unload_ok) ==
    /\ BagIn(AtUnloadPlatforms(entry), suspended)
    /\ resume(AtUnloadPlatforms(entry))
    /\ IF unload_ok = UnloadError
       THEN /\ UNCHANGED <<hass_data, history>>
            /\ last_entry' = [op |-> "async_unload_entry", entry |-> entry,
                              outcome |-> UnloadError]
       ELSE IF unload_ok = PyFalse
       THEN /\ UNCHANGED <<hass_data, history>>
            /\ last_entry' = [op |-> "async_unload_entry", entry |-> entry,
                              outcome |-> PyFalse]
       ELSE /\ history' = [history EXCEPT ![entry] =
                             [@ EXCEPT !.unloaded_since = TRUE,
                                       !.login_since_unload = FALSE]]
            /\ IF has_record(entry)
               THEN /\ hass_data' = [hass_data EXCEPT
                                       !.records = dict_pop(@, entry)]
                    /\ last_entry' = [op |-> "async_unload_entry", entry |-> entry,
                                      outcome |-> PyTrue]
               ELSE \* hass.data[DOMAIN] or .pop(entry.entry_id) raises
                    /\ UNCHANGED hass_data
                    /\ last_entry' = [op |-> "async_unload_entry", entry |-> entry,
                                      outcome |-> KeyError]
    /\ UNCHANGED climate_vars

PowerValues == {PyTrue, PyFalse, PyNone}

DeviceData ==
    [power : PowerValues, mode : VendorCodes, speed_state : VendorCodes,
     setpoint_air_cool : Temps, setpoint_air_heat : Temps, setpoint_air_auto : Temps]

InitClimate ==
    /\ device_data \in DeviceData
    /\ trace = <<>>
    /\ applied = 0
    /\ calls = <<>>

InitEntry ==
    /\ hass_data = [domain |-> FALSE, records |-> <<>>]
    /\ suspended = EmptyBag
    /\ history = [e \in EntryIds |->
                    [last_setup |-> "never", unloaded_since |-> FALSE,
                     login_since_unload |-> FALSE]]
    /\ last_entry = [op |-> "", entry |-> 0, outcome |-> ""]

\* The fields a slice of the entity does not read are held at one value.
FixedSpeed == device_data.speed_state = 0
FixedSetpoints ==
    /\ device_data.setpoint_air_cool = 1
    /\ device_data.setpoint_air_heat = 1
    /\ device_data.setpoint_air_auto = 1
FixedMode == device_data.power = PyTrue /\ device_data.mode = 1
FixedCode == device_data.mode = 1

\* the modes requested where calls are in flight together: two modes of the
\* table and OFF
RequestedModes == {HVAC_HEAT, HVAC_COOL, HVAC_OFF}

\* HVAC mode and power: async_set_hvac_mode calls in flight together and the
\* hvac_mode getter.  The power field begins at any value; the vendor's data
\* changes as the vendor settles the commands of the calls.
Init == InitClimate /\ InitEntry /\ FixedSpeed /\ FixedSetpoints /\ FixedCode

Next ==
    \/ \E m \in RequestedModes : async_set_hvac_mode(m)
    \/ \E i \in 1..Len(calls), result \in SetterResults :
         async_set_hvac_mode_resumed(i, result)
    \/ VendorSettle

Spec == Init /\ [][Next]_vars

\* Fan speed: async_set_fan_mode and the fan_mode getter
InitFan == InitClimate /\ InitEntry /\ FixedMode /\ FixedSetpoints

NextFan ==
    \/ \E f \in Range(fan_modes) : async_set_fan_mode(f)
    \/ \E i \in 1..Len(calls), result \in SetterResults :
         async_set_fan_mode_resumed(i, result)
    \/ VendorSettle
    \/ \E c \in VendorCodes : VendorPush("speed_state", c)

SpecFan == InitFan /\ [][NextFan]_vars

\* Target temperature: async_set_temperature, the target_temperature getter and
\* the hvac_mode getter they read.  The vendor's data begins at any value of
\* every field that is read; the vendor switches the power by itself.
InitTemp == InitClimate /\ InitEntry /\ FixedSpeed

NextTemp ==
    \/ \E kwargs \in Kwargs : async_set_temperature(kwargs)
    \/ \E i \in 1..Len(calls), result \in SetterResults :
         async_set_temperature_resumed(i, result)
    \/ VendorSettle
    \/ \E p \in PowerValues : VendorPush("power", p)

SpecTemp == InitTemp /\ [][NextTemp]_vars

\* Setup and unload of configuration entries
InitLifecycle == InitClimate /\ InitEntry /\ FixedMode /\ FixedSpeed /\ FixedSetpoints

NextLifecycle ==
    \/ \E e \in EntryIds : async_setup_entry(e)
    \/ \E e \in EntryIds, login_raises \in BOOLEAN :
         async_setup_entry_after_login(e, login_raises)
    \/ \E e \in EntryIds, forward_raises \in BOOLEAN :
         async_setup_entry_after_forward(e, forward_raises)
    \/ \E e \in EntryIds : async_unload_entry(e)
    \/ \E e \in EntryIds, unload_ok \in UnloadResults :
         async_unload_entry_after_unload_platforms(e, unload_ok)

SpecLifecycle == InitLifecycle /\ [][NextLifecycle]_vars

(***************************************************************************)
(* Properties of async_set_hvac_mode and the hvac_mode getter (Spec).      *)
(***************************************************************************)
\* the async_set_hvac_mode calls begun so far
HvacCalls == {i \in 1..Len(calls) : calls[i].op = "async_set_hvac_mode"}

TableModes == Range(dict_values(DKN_MODE_TO_HVAC_MODE))
TableCodes == Range(dict_keys(DKN_MODE_TO_HVAC_MODE))

IsModeCommandFor(cmd, m) ==
    /\ cmd.key = "mode"
    /\ dict_has(DKN_MODE_TO_HVAC_MODE, cmd.value)
    /\ dict_get(DKN_MODE_TO_HVAC_MODE, cmd.value) = m

IsPowerCommand(cmd, value) == cmd.key = "power" /\ cmd.value = value

\* What one call async_set_hvac_mode(m), m a non-OFF mode of the table, begun
\* while the power field is False, makes: ("mode", code of m) and then
\* ("power", True), both when the vendor's setter returns both times, and the
\* commands up to the raising one when the setter raises.
TurnsOnInOrder(i) ==
    (calls[i].arg \in TableModes /\ calls[i].read = PyFalse) =>
       /\ Len(issued(i)) \in 1..2
       /\ IsModeCommandFor(issued(i)[1], calls[i].arg)
       /\ Len(issued(i)) = 2 => IsPowerCommand(issued(i)[2], PyTrue)
       /\ calls[i].outcome = Returned => Len(issued(i)) = 2

\* The commands of a call that turns the device on, for every mode of the table.
C1_EveryTableMode ==
    \A m \in TableModes :
       /\ Len(hvac_mode_commands(m, PyFalse)) = 2
       /\ IsModeCommandFor(hvac_mode_commands(m, PyFalse)[1], m)
       /\ IsPowerCommand(hvac_mode_commands(m, PyFalse)[2], PyTrue)

\* C1 as stated: a call async_set_hvac_mode(m), m a non-OFF mode of the table,
\* begun while the power field is False makes the two commands ("mode", code of
\* m) and then ("power", True); and in the trace every ("power", True) command
\* comes directly after a "mode" command of the same call.
C1_ModeThenPowerOn ==
    /\ C1_EveryTableMode
    /\ \A i \in HvacCalls : TurnsOnInOrder(i)
    /\ \A j \in 1..Len(trace) :
          IsPowerCommand(trace[j], PyTrue) =>
             /\ j > 1
             /\ trace[j - 1].key = "mode"
             /\ trace[j - 1].call = trace[j].call

\* C1 amended: a call async_set_hvac_mode(m), m a non-OFF mode of the table,
\* begun while the power field is False makes the two commands ("mode", code of
\* m) and then ("power", True) when the vendor's setter returns both times; and
\* in the trace of any calls, one after the other or in flight together, every
\* ("power", True) command comes after a "mode" command of the same call with
\* no command of that call between the two.
C1_ModeThenPowerOnOfCall ==
    /\ C1_EveryTableMode
    /\ \A i \in HvacCalls : TurnsOnInOrder(i)
    /\ \A j \in 1..Len(trace) :
          IsPowerCommand(trace[j], PyTrue) =>
             \E k \in 1..(j - 1) :
                /\ trace[k].call = trace[j].call
                /\ trace[k].key = "mode"
                /\ \A l \in (k + 1)..(j - 1) : trace[l].call # trace[j].call

\* Two calls in flight together on a device whose power field was False: both
\* made their mode command before either made its power command, and both
\* returned.
C1_Witness ==
    /\ Len(calls) = 2
    /\ calls[1] = [op |-> "async_set_hvac_mode", arg |-> HVAC_HEAT,
                   read |-> PyFalse, outcome |-> Returned]
    /\ calls[2] = [op |-> "async_set_hvac_mode", arg |-> HVAC_COOL,
                   read |-> PyFalse, outcome |-> Returned]
    /\ trace = << [call |-> 1, key |-> "mode", value |-> 3],
                  [call |-> 2, key |-> "mode", value |-> 2],
                  [call |-> 1, key |-> "power", value |-> PyTrue],
                  [call |-> 2, key |-> "power", value |-> PyTrue] >>

\* C2: a call async_set_hvac_mode(OFF) makes no command but ("power", False),
\* and never a "mode" command, whatever the power and mode fields are; it
\* makes that command once when the power field is True.
C2_OffOnlyPowerOff ==
    \A i \in HvacCalls :
       calls[i].arg = HVAC_OFF =>
          /\ \A k \in 1..Len(issued(i)) : IsPowerCommand(issued(i)[k], PyFalse)
          /\ \A j \in 1..Len(trace) : trace[j].call = i => trace[j].key # "mode"
          /\ calls[i].read = PyTrue => Len(issued(i)) = 1
          /\ Len(issued(i)) <= 1

\* OFF was requested on a running device while another call waited for its
\* mode command; the power-off command was made and the call returned.
C2_Witness ==
    /\ Len(calls) = 2
    /\ calls[1].arg = HVAC_COOL /\ calls[1].outcome = Suspended
    /\ calls[2] = [op |-> "async_set_hvac_mode", arg |-> HVAC_OFF,
                   read |-> PyTrue, outcome |-> Returned]
    /\ issued(2) = <<Command("power", PyFalse)>>
    /\ dict_has(DKN_MODE_TO_HVAC_MODE, device_data.mode)

\* The table alone: its keys are 1..5, its values five different modes, and
\* the reverse lookup undoes the forward one and the other way round.
C3_TableRoundTrips ==
    /\ TableCodes = 1..5
    /\ Cardinality(TableModes) = 5
    /\ \A c \in TableCodes :
          _hvac_mode_to_dkn_mode(dict_get(DKN_MODE_TO_HVAC_MODE, c)) = c
    /\ \A m \in TableModes :
          /\ dict_has(DKN_MODE_TO_HVAC_MODE, _hvac_mode_to_dkn_mode(m))
          /\ dict_get(DKN_MODE_TO_HVAC_MODE, _hvac_mode_to_dkn_mode(m)) = m

\* C3: the HVAC mode table is a bijection on the vendor codes 1..5: looking a
\* code's mode up in reverse gives the code back, and looking a mode's code up
\* forward gives the mode back.  So the getter's mode maps back to the vendor's
\* code, and the code a setter sends is the one the getter reads as that mode.
C3_HvacTableBijection ==
    /\ C3_TableRoundTrips
    /\ hvac_mode \in TableModes => _hvac_mode_to_dkn_mode(hvac_mode) = device_data.mode
    /\ \A i \in HvacCalls :
          calls[i].arg # HVAC_OFF =>
             /\ Len(issued(i)) >= 1
             /\ IsModeCommandFor(issued(i)[1], calls[i].arg)

\* HEAT was requested, the vendor settled every command, and the getter reads
\* HEAT from the code that was sent.
C3_Witness ==
    /\ Len(calls) = 1
    /\ calls[1].arg = HVAC_HEAT /\ calls[1].read = PyFalse
    /\ Len(trace) = 2 /\ applied = 2
    /\ device_data.mode = 3 /\ device_data.power = PyTrue
    /\ hvac_mode = HVAC_HEAT

\* Of call i: the power state it asked for, the one it found when it began
\* (power is True, line 170), and whether it made a power command.
C9_RequestedOn(i) == calls[i].arg # HVAC_OFF
C9_CurrentOn(i) == calls[i].read = PyTrue
C9_MadePower(i) == \E k \in 1..Len(issued(i)) : issued(i)[k].key = "power"

\* For every mode and every power field: a power command is among the commands
\* of the call exactly when the requested and the current power state differ.
C9_EveryModeAndPower ==
    \A m \in Range(hvac_modes), p \in PowerValues :
       (\E k \in 1..Len(hvac_mode_commands(m, p)) :
           hvac_mode_commands(m, p)[k].key = "power")
       <=> ((m # HVAC_OFF) # (p = PyTrue))

\* C9 as stated: a call of async_set_hvac_mode that has ended has made a power
\* command exactly when the requested power state (mode # OFF) differs from the
\* current one; a non-OFF request on a running device makes the mode command
\* only; an OFF request on a device that is off makes no command.
C9_PowerIffChange ==
    \A i \in HvacCalls :
       calls[i].outcome # Suspended =>
          /\ C9_MadePower(i) <=> (C9_RequestedOn(i) # C9_CurrentOn(i))
          /\ (C9_RequestedOn(i) /\ C9_CurrentOn(i)) =>
                /\ Len(issued(i)) = 1
                /\ IsModeCommandFor(issued(i)[1], calls[i].arg)
          /\ (~C9_RequestedOn(i) /\ ~C9_CurrentOn(i)) => issued(i) = <<>>

\* C9 amended: async_set_hvac_mode makes a power command only when the requested
\* power state (mode # OFF) differs from the current one, which is the power
\* field as the call read it when it began (power is True), and it makes one
\* whenever they differ and the call returns; a call whose mode set call raises
\* ends there with no power command.  A non-OFF request on a running device
\* makes the mode command only; an OFF request on a device that is off makes no
\* command and returns at once; and no step of a call changes the vendor's
\* data.
C9_PowerOnlyOnChange ==
    /\ []C9_EveryModeAndPower
    /\ [](\A i \in HvacCalls :
            /\ C9_MadePower(i) => C9_RequestedOn(i) # C9_CurrentOn(i)
            /\ (calls[i].outcome = Returned
                /\ C9_RequestedOn(i) # C9_CurrentOn(i)) =>
                  IsPowerCommand(issued(i)[Len(issued(i))],
                                 PyBool(C9_RequestedOn(i)))
            /\ (C9_RequestedOn(i) /\ C9_CurrentOn(i)) =>
                  /\ Len(issued(i)) = 1
                  /\ IsModeCommandFor(issued(i)[1], calls[i].arg)
            /\ (calls[i].outcome \in {VendorError, CancelledError}
                /\ C9_RequestedOn(i) /\ Len(issued(i)) = 1) =>
                  ~C9_MadePower(i)
            /\ (~C9_RequestedOn(i) /\ ~C9_CurrentOn(i)) =>
                  (issued(i) = <<>> /\ calls[i].outcome = Returned))
    /\ [][(/\ (calls' # calls \/ trace' # trace) => device_data' = device_data
           /\ Len(calls') > Len(calls) =>
                 /\ calls'[Len(calls')].read = device_data.power
                 /\ (calls'[Len(calls')].arg = HVAC_OFF
                     /\ device_data.power # PyTrue) => trace' = trace)]_vars

\* A non-OFF request on a running device made its mode command; while it waited
\* an OFF request switched the device off; it returned with no power command
\* made, and the power field is False.
C9_Witness ==
    /\ Len(calls) = 2
    /\ calls[1] = [op |-> "async_set_hvac_mode", arg |-> HVAC_HEAT,
                   read |-> PyTrue, outcome |-> Returned]
    /\ issued(1) = <<Command("mode", 3)>>
    /\ calls[2].arg = HVAC_OFF /\ calls[2].read = PyTrue
    /\ trace[2] = [call |-> 2, key |-> "power", value |-> PyFalse]
    /\ applied = 2
    /\ device_data.power = PyFalse

\* The setter takes a device with this power field to be off: it would send
\* power-on for a non-OFF request and no power command for an OFF request.
C10_TreatsAsOff(power) ==
    /\ \E i \in 1..Len(hvac_mode_commands(HVAC_COOL, power)) :
          IsPowerCommand(hvac_mode_commands(HVAC_COOL, power)[i], PyTrue)
    /\ \A i \in 1..Len(hvac_mode_commands(HVAC_OFF, power)) :
          hvac_mode_commands(HVAC_OFF, power)[i].key # "power"

\* C10 as stated: for every value of the power field (and a vendor code the
\* getter can translate) the hvac_mode getter reports OFF exactly when
\* async_set_hvac_mode takes the device to be off.
C10_GetterAndSetterAgree ==
    dict_has(DKN_MODE_TO_HVAC_MODE, device_data.mode) =>
       ((hvac_mode = HVAC_OFF) <=> C10_TreatsAsOff(device_data.power))

(***************************************************************************)
(* Properties of async_set_fan_mode and the fan_mode getter (SpecFan).     *)
(***************************************************************************)
FanCodes == Range(dict_keys(DKN_MODE_TO_FAN_MODE))

\* The table alone: its keys are {0, 2, 4, 6}, its values four different fan
\* modes, and the reverse lookup undoes the forward one.
C4_TableRoundTrips ==
    /\ FanCodes = {0, 2, 4, 6}
    /\ Cardinality(Range(fan_modes)) = 4
    /\ \A c \in FanCodes :
          _fan_mode_to_dkn_mode(dict_get(DKN_MODE_TO_FAN_MODE, c)) = c

\* C4: the fan table is a bijection on the vendor codes {0, 2, 4, 6}: looking a
\* code's fan mode up in reverse gives the code back.  So when the vendor
\* applies the speed_state command of a call async_set_fan_mode(f), the
\* fan_mode getter returns f, for every f of fan_modes.
C4_FanTableBijection ==
    /\ []C4_TableRoundTrips
    /\ [][(/\ applied' = applied + 1
           /\ calls[trace[applied + 1].call].op = "async_set_fan_mode"
           /\ device_data'.speed_state = trace[applied + 1].value)
          => fan_mode' = calls[trace[applied + 1].call].arg]_vars

\* HIGH was requested on a device at another speed while a call for LOW waited;
\* the vendor applied both commands, and the getter reads HIGH.
C4_Witness ==
    /\ Len(calls) = 2
    /\ calls[1].arg = FAN_LOW /\ calls[2].arg = FAN_HIGH
    /\ applied = 2
    /\ device_data.speed_state = 6
    /\ fan_mode = FAN_HIGH

(***************************************************************************)
(* Properties of the target temperature (SpecTemp).                        *)
(***************************************************************************)
\* C5 as stated: the getter gives OFF when the power field is False, the
\* table's mode for the vendor code when the power field is True, and in every
\* state one of the six advertised modes.
C5_AlwaysAdvertisedMode ==
    /\ device_data.power = PyFalse => hvac_mode = HVAC_OFF
    /\ (device_data.power = PyTrue /\ dict_has(DKN_MODE_TO_HVAC_MODE, device_data.mode))
          => hvac_mode = dict_get(DKN_MODE_TO_HVAC_MODE, device_data.mode)
    /\ hvac_mode \in Range(hvac_modes)

\* C6: the target_temperature getter returns the cool setpoint when the derived
\* mode is COOL, the heat setpoint when HEAT, the auto setpoint when HEAT_COOL,
\* and None when the derived mode is FAN_ONLY, DRY or OFF.
C6_TargetTemperature ==
    /\ hvac_mode = HVAC_COOL =>
          target_temperature = Some(device_data.setpoint_air_cool)
    /\ hvac_mode = HVAC_HEAT =>
          target_temperature = Some(device_data.setpoint_air_heat)
    /\ hvac_mode = HVAC_HEAT_COOL =>
          target_temperature = Some(device_data.setpoint_air_auto)
    /\ hvac_mode \in {HVAC_FAN_ONLY, HVAC_DRY, HVAC_OFF} =>
          target_temperature = None

\* A heat setpoint was set and settled by the vendor; the derived mode is HEAT,
\* the other two setpoints differ from it, and the getter returns the heat one.
C6_Witness ==
    /\ Len(calls) = 1
    /\ calls[1].op = "async_set_temperature" /\ calls[1].outcome = Returned
    /\ issued(1) = <<Command("setpoint_air_heat", 2)>>
    /\ applied = Len(trace) /\ applied > 0
    /\ hvac_mode = HVAC_HEAT
    /\ device_data.setpoint_air_heat = 2
    /\ device_data.setpoint_air_cool = 1
    /\ device_data.setpoint_air_auto = 1
    /\ target_temperature = Some(2)

\* C7 as stated: async_set_temperature ends with UpdateFailed and makes no
\* command when the temperature argument is missing or the derived mode is not
\* COOL, HEAT or HEAT_COOL; and it ends with UpdateFailed, not with the
\* exception raised, when the vendor's setter raises (a call that has made its
\* command and ended without returning).
C7_UpdateFailedOnly ==
    \A i \in 1..Len(calls) :
       calls[i].op = "async_set_temperature" =>
          /\ (\/ kwargs_get_temperature(calls[i].arg) = None
              \/ calls[i].read \notin {HVAC_COOL, HVAC_HEAT, HVAC_HEAT_COOL}) =>
                (calls[i].outcome = UpdateFailed /\ issued(i) = <<>>)
          /\ (issued(i) # <<>> /\ calls[i].outcome \notin {Suspended, Returned}) =>
                calls[i].outcome = UpdateFailed

(***************************************************************************)
(* Properties of the configuration-entry lifecycle (SpecLifecycle).        *)
(***************************************************************************)
\* C8 as stated: hass.data[DOMAIN] holds a record for an entry exactly when the
\* entry's last setup completed its login and the entry was not unloaded since.
C8_RecordIffLastSetupLoggedIn ==
    \A e \in EntryIds :
       has_record(e) <=> (/\ history[e].last_setup = "login_completed"
                          /\ ~history[e].unloaded_since)

\* a setup of e leaves its login await and does not go on to the platforms
LoginFails(e) ==
    /\ CopiesIn(AtLogin(e), suspended') < CopiesIn(AtLogin(e), suspended)
    /\ CopiesIn(AtForward(e), suspended') = CopiesIn(AtForward(e), suspended)

\* C8 amended: hass.data[DOMAIN] holds a record for an entry exactly when some
\* setup of the entry completed its login after the entry's last unload (or
\* with no unload before it); a setup whose login fails stores no record and
\* leaves the records as they were.
C8_RecordIffLoggedInSinceUnload ==
    /\ [](\A e \in EntryIds : has_record(e) <=> history[e].login_since_unload)
    /\ [][\A e \in EntryIds : LoginFails(e) => hass_data' = hass_data]_vars

\* An entry holds the record of an earlier setup although the login of its
\* last setup failed, and another entry, set up and unloaded, holds none.
C8_Witness ==
    \E e, f \in EntryIds :
       /\ e # f
       /\ last_entry = [op |-> "async_setup_entry", entry |-> e,
                        outcome |-> LoginError]
       /\ has_record(e) /\ history[e].last_setup = "login_failed"
       /\ ~has_record(f) /\ history[f].last_setup = "login_completed"
       /\ history[f].unloaded_since

====
